---------------------------- MODULE Spec2Model ----------------------------
(***************************************************************************)
(* Verification model of the Spirograph SVG generator                      *)
(* (src/spirograph: config.py, generator.py, render.py, cli.py).           *)
(*                                                                         *)
(* Python floats are modelled as exact rationals <<n, d>> with d > 0 in    *)
(* lowest terms, so every arithmetic step of the source is computed, not   *)
(* assumed.  math.cos / math.sin are modelled by Bhaskara's rational       *)
(* approximation (exact at theta = 0, always inside [-1, 1]).              *)
(***************************************************************************)
EXTENDS Integers, Sequences, FiniteSets, TLC

VARIABLES
    pc,        \* the statement the program is at
    caller,    \* who called generate_path: "main" (through build_svg) or "none"
    config,    \* the SpiroConfig in use (NoValue before _build_config)
    points,    \* generate_points' result / scale_points' argument
    locals,    \* scale_points' local variables (NoValue if not computed)
    scaled,    \* scale_points' result / points_to_path's argument
    segments,  \* points_to_path's list `segments`
    path,      \* points_to_path's return value (NoValue if none)
    error,     \* the exception that ended the run (NoValue if none)
    args,      \* argparse.Namespace of main
    design,    \* design_number chosen by _prepare_rng
    values,    \* _collect_knob_values' dict `values`, as a function on a prefix of KnobOrder
    svg,       \* build_svg's return value
    disk       \* the files written by save_svg: a set of [name, content]

vars == <<pc, caller, config, points, locals, scaled, segments, path, error,
          args, design, values, svg, disk>>

NoValue == [none |-> TRUE]

-----------------------------------------------------------------------------
(* Exact rational arithmetic standing for float arithmetic.                *)

Abs(n) == IF n < 0 THEN 0 - n ELSE n

RECURSIVE GCD(_, _)
GCD(a, b) == IF b = 0 THEN a ELSE GCD(b, a % b)

Rat(n, d) ==
    LET s == IF d < 0 THEN 0 - 1 ELSE 1
        g == GCD(Abs(n), Abs(d))
    IN  <<(s * n) \div g, (s * d) \div g>>

FromInt(n) == <<n, 1>>

RNeg(a) == <<0 - a[1], a[2]>>

RAdd(a, b) ==
    LET g == GCD(a[2], b[2])
    IN  Rat(a[1] * (b[2] \div g) + b[1] * (a[2] \div g), (a[2] \div g) * b[2])

RSub(a, b) == RAdd(a, RNeg(b))

RMul(a, b) ==
    LET g1 == GCD(Abs(a[1]), b[2])
        g2 == GCD(Abs(b[1]), a[2])
    IN  IF a[1] = 0 \/ b[1] = 0 THEN <<0, 1>>
        ELSE <<(a[1] \div g1) * (b[1] \div g2), (a[2] \div g2) * (b[2] \div g1)>>

\* a / b; the callers establish b # 0 (Python raises ZeroDivisionError otherwise)
RDiv(a, b) ==
    IF b[1] < 0 THEN RMul(a, <<0 - b[2], 0 - b[1]>>) ELSE RMul(a, <<b[2], b[1]>>)

RLe(a, b) == RSub(a, b)[1] <= 0

RLt(a, b) == RSub(a, b)[1] < 0

RMax(a, b) == IF RLt(a, b) THEN b ELSE a

RAbs(a) == <<Abs(a[1]), a[2]>>

\* floor of a rational
RFloor(a) ==
    IF a[1] >= 0 THEN a[1] \div a[2]
    ELSE 0 - ((Abs(a[1]) + a[2] - 1) \div a[2])

\* int(x): Python truncates toward zero
RTrunc(a) == IF a[1] >= 0 THEN a[1] \div a[2] ELSE 0 - (Abs(a[1]) \div a[2])

IMax(a, b) == IF a < b THEN b ELSE a

-----------------------------------------------------------------------------
(* math.pi, math.cos, math.sin                                             *)

\* math.pi as a rational: 355/113 = 3.1415929...
Pi == Rat(355, 113)

\* pi in hundredths of a radian, the resolution of the sine approximation
PiCenti == 314

\* Bhaskara's approximation of sin on [0, pi], c in hundredths of a radian,
\* result in thousandths: 16 c (pi - c) / (5 pi^2 - 4 c (pi - c))
SinHalfTurn(c) ==
    (16 * c * (PiCenti - c) * 1000)
        \div (5 * PiCenti * PiCenti - 4 * c * (PiCenti - c))

\* sine of a non-negative angle given in hundredths of a radian, in thousandths
SinCenti(c) ==
    LET m == c % (2 * PiCenti)
    IN  IF m <= PiCenti THEN SinHalfTurn(m) ELSE 0 - SinHalfTurn(m - PiCenti)

\* hundredths of a radian in |theta|
Centi(theta) == RTrunc(RMul(RAbs(theta), FromInt(100)))

\* math.sin(theta): odd
Sin(theta) ==
    IF theta[1] < 0 THEN Rat(0 - SinCenti(Centi(theta)), 1000)
    ELSE Rat(SinCenti(Centi(theta)), 1000)

\* math.cos(theta) = sin(|theta| + pi/2): even
Cos(theta) == Rat(SinCenti(Centi(theta) + PiCenti \div 2), 1000)

-----------------------------------------------------------------------------
(* config.py                                                               *)

HYPOTROCHOID == "hypotrochoid"
EPITROCHOID == "epitrochoid"
SpiroType == {HYPOTROCHOID, EPITROCHOID}

\* mutant of extent: the hypotrochoid's outer bound loses the pen's reach
extent_PenSign(c) ==
    IF c.spiro_type = HYPOTROCHOID
    THEN <<RSub(RSub(c.outer_radius, c.inner_radius), c.pen_offset),
           RSub(c.outer_radius, c.pen_offset)>>
    ELSE <<FromInt(0), RSub(RSub(c.outer_radius, c.inner_radius), c.pen_offset)>>

\* SpiroConfig.extent: (min radius, max radius) used for scaling
extent(c) ==
    IF c.spiro_type = HYPOTROCHOID
    THEN <<RSub(RSub(c.outer_radius, c.inner_radius), c.pen_offset),
           RAdd(c.outer_radius, c.pen_offset)>>
    ELSE <<FromInt(0), RAdd(RAdd(c.outer_radius, c.inner_radius), c.pen_offset)>>

-----------------------------------------------------------------------------
(* generator.py                                                            *)

hypotrochoid_point(theta, c) ==
    LET r == c.inner_radius
        R == c.outer_radius
        d == c.pen_offset
        k == RSub(R, r)
        cos_theta == Cos(theta)
        sin_theta == Sin(theta)
        angle_multiplier == RDiv(k, r)
    IN  <<RAdd(RMul(k, cos_theta), RMul(d, Cos(RMul(angle_multiplier, theta)))),
          RSub(RMul(k, sin_theta), RMul(d, Sin(RMul(angle_multiplier, theta))))>>

epitrochoid_point(theta, c) ==
    LET r == c.inner_radius
        R == c.outer_radius
        d == c.pen_offset
        k == RAdd(R, r)
        cos_theta == Cos(theta)
        sin_theta == Sin(theta)
        angle_multiplier == RDiv(k, r)
    IN  <<RSub(RMul(k, cos_theta), RMul(d, Cos(RMul(angle_multiplier, theta)))),
          RSub(RMul(k, sin_theta), RMul(d, Sin(RMul(angle_multiplier, theta))))>>

\* mutant of StepsOf: the max(1, ...) floor is dropped
StepsOf_NoFloor(c) ==
    RTrunc(RDiv(RMul(RMul(FromInt(2), Pi), c.cycles), c.theta_step))

\* steps = max(1, int(total_angle / config.theta_step))
StepsOf(c) ==
    LET total_angle == RMul(RMul(FromInt(2), Pi), c.cycles)
    IN  IMax(1, RTrunc(RDiv(total_angle, c.theta_step)))

\* mutant of SampleIndexes: range(steps)
SampleIndexes_Exclusive(steps) == 0 .. steps - 1

\* for index in range(steps + 1)
SampleIndexes(steps) == 0 .. steps

\* the body of generate_points, for a config that does not divide by zero
generate_points(c) ==
    LET idx == SampleIndexes(StepsOf(c))
    IN  [i \in 1 .. Cardinality(idx) |->
            LET theta == RMul(FromInt(i - 1), c.theta_step)
            IN  IF c.spiro_type = HYPOTROCHOID
                THEN hypotrochoid_point(theta, c)
                ELSE epitrochoid_point(theta, c)]

\* math.isclose(span, 0.0): rel_tol = 1e-09, abs_tol = 0.0, so
\* |span| <= 1e-09 * |span|, which only span = 0 satisfies
IsCloseToZero(span) == span[1] = 0

\* mutant of ScaleDivisor: the max(..., 1.0) floor is dropped
ScaleDivisor_NoFloor(span) == RDiv(span, FromInt(2))

\* the divisor of the scale factor: max(span / 2, 1.0)
ScaleDivisor(span) == RMax(RDiv(span, FromInt(2)), FromInt(1))

\* span after lines 59-61: max_extent - min_extent, replaced by
\* max(outer_radius, 1.0) when it is close to zero
ScaleSpan(c) ==
    LET span0 == RSub(extent(c)[2], extent(c)[1])
    IN  IF IsCloseToZero(span0) THEN RMax(c.outer_radius, FromInt(1)) ELSE span0

\* the local variables of scale_points after line 63
ScaleLocals(c) ==
    LET ext == extent(c)
        half_canvas == Rat(c.canvas_size, 2)
    IN  [min_extent |-> ext[1], max_extent |-> ext[2],
         span0 |-> RSub(ext[2], ext[1]), span |-> ScaleSpan(c),
         half_canvas |-> half_canvas,
         scale |-> RDiv(half_canvas, ScaleDivisor(ScaleSpan(c)))]

\* mutant of ScaleCoord: the translation to the canvas centre is dropped
ScaleCoord_NoOffset(x, half_canvas, scale) == RMul(x, scale)

\* half_canvas + x * scale
ScaleCoord(x, half_canvas, scale) == RAdd(half_canvas, RMul(x, scale))

\* mutant of ScaleReturnsEarly: the empty-input return is dropped
ScaleReturnsEarly_Never(pts) == FALSE

\* if not points: return []
ScaleReturnsEarly(pts) == Len(pts) = 0

\* the loop of scale_points
ScaleLoop(pts, l) ==
    [i \in 1 .. Len(pts) |->
        <<ScaleCoord(pts[i][1], l.half_canvas, l.scale),
          ScaleCoord(pts[i][2], l.half_canvas, l.scale)>>]

\* one decimal digit
Digit(k) == ToString(k % 10)

\* f"{x:.3f}": sign, integer part, three decimals, the exact value rounded
\* to the nearest thousandth, ties to even
Fmt3(x) ==
    LET n  == Abs(x[1])
        d  == x[2]
        ip == n \div d
        r0 == n % d
        d1 == (r0 * 10) \div d
        r1 == (r0 * 10) % d
        d2 == (r1 * 10) \div d
        r2 == (r1 * 10) % d
        d3 == (r2 * 10) \div d
        r3 == (r2 * 10) % d
        milli == ip * 1000 + d1 * 100 + d2 * 10 + d3
        up == 2 * r3 > d \/ (2 * r3 = d /\ milli % 2 = 1)
        m  == IF up THEN milli + 1 ELSE milli
    IN  (IF x[1] < 0 THEN "-" ELSE "")
            \o ToString(m \div 1000) \o "."
            \o Digit(m \div 100) \o Digit(m \div 10) \o Digit(m)

\* f"M {first[0]:.3f} {first[1]:.3f}"
MoveTo(p) == [cmd |-> "M", x |-> Fmt3(p[1]), y |-> Fmt3(p[2])]

\* f"L {x:.3f} {y:.3f}"
LineTo(p) == [cmd |-> "L", x |-> Fmt3(p[1]), y |-> Fmt3(p[2])]

\* the text of one element of `segments`
SegmentText(s) == s.cmd \o " " \o s.x \o " " \o s.y

\* mutant of BuildSegments: the line-to commands iterate the whole sequence
BuildSegments_Repeat(pts) ==
    <<MoveTo(Head(pts))>> \o [i \in 1 .. Len(pts) |-> LineTo(pts[i])]

\* segments = [M first]; segments.extend(L ... for x, y in iterator)
BuildSegments(pts) ==
    LET rest == Tail(pts)
    IN  <<MoveTo(Head(pts))>> \o [i \in 1 .. Len(rest) |-> LineTo(rest[i])]

\* " ".join(segments[lo..hi]), by halves
RECURSIVE JoinRange(_, _, _)
JoinRange(segs, lo, hi) ==
    IF lo = hi THEN SegmentText(segs[lo])
    ELSE LET mid == (lo + hi) \div 2
         IN  JoinRange(segs, lo, mid) \o " " \o JoinRange(segs, mid + 1, hi)

\* " ".join(segments)
Join(segs) == IF Len(segs) = 0 THEN "" ELSE JoinRange(segs, 1, Len(segs))

\* mutant of PathRejects: the empty-input check is dropped
PathRejects_Never(pts) == FALSE

\* if not points: raise ValueError(...)
PathRejects(pts) == Len(pts) = 0

\* the exception points_to_path raises
EmptyPathError ==
    [type |-> "ValueError",
     message |-> "Cannot build a path from an empty sequence of points"]

\* ZeroDivisionError of a float division
ZeroDivision == [type |-> "ZeroDivisionError", message |-> "float division by zero"]

\* next(iterator) on an iterator with no element
IteratorExhausted == [type |-> "StopIteration", message |-> ""]

\* no path string has been returned
NoPath == ""

-----------------------------------------------------------------------------
(* The pipeline of generate_path: generate_points, scale_points,           *)
(* points_to_path, one action per function.                                *)

mainVars == <<args, design, values, svg, disk>>

\* an uncaught exception: nothing in the repository catches, the run ends
Raise(e) == pc' = "raised" /\ error' = e

\* generator.py generate_points
GeneratePoints ==
    /\ pc = "generate_points"
    /\ IF config.theta_step[1] = 0 \/ config.inner_radius[1] = 0
       THEN /\ Raise(ZeroDivision)
            /\ UNCHANGED points
       ELSE /\ points' = generate_points(config)
            /\ pc' = "scale_points"
            /\ UNCHANGED error
    /\ UNCHANGED <<caller, config, locals, scaled, segments, path>>
    /\ UNCHANGED mainVars

\* generator.py scale_points
ScalePoints ==
    /\ pc = "scale_points"
    /\ IF ScaleReturnsEarly(points)
       THEN /\ scaled' = <<>>
            /\ pc' = "points_to_path"
            /\ UNCHANGED <<locals, error>>
       ELSE IF ScaleDivisor(ScaleSpan(config))[1] = 0
       THEN /\ Raise(ZeroDivision)
            /\ UNCHANGED <<locals, scaled>>
       ELSE /\ locals' = ScaleLocals(config)
            /\ scaled' = ScaleLoop(points, locals')
            /\ pc' = "points_to_path"
            /\ UNCHANGED error
    /\ UNCHANGED <<caller, config, points, segments, path>>
    /\ UNCHANGED mainVars

\* generator.py points_to_path; generate_path returns its result
PointsToPath ==
    /\ pc = "points_to_path"
    /\ IF PathRejects(scaled)
       THEN /\ Raise(EmptyPathError)
            /\ UNCHANGED <<segments, path>>
       ELSE IF Len(scaled) = 0
       THEN /\ Raise(IteratorExhausted)
            /\ UNCHANGED <<segments, path>>
       ELSE /\ segments' = BuildSegments(scaled)
            /\ path' = Join(segments')
            /\ pc' = IF caller = "build_svg" THEN "build_svg_format" ELSE "done"
            /\ UNCHANGED error
    /\ UNCHANGED <<caller, config, points, locals, scaled>>
    /\ UNCHANGED mainVars

-----------------------------------------------------------------------------
(* Inputs of the pure-function specifications.                             *)

\* longest sequence of arbitrary points handed to scale_points
MaxLen == 2

\* longest sequence of arbitrary points handed to points_to_path
MaxPathLen == 3

SeqsUpTo(S, n) == UNION {[1 .. k -> S] : k \in 0 .. n}

MkConfig(R, r, d, ts, cy, cs, ty) ==
    [outer_radius |-> R, inner_radius |-> r, pen_offset |-> d,
     theta_step |-> ts, cycles |-> cy,
     stroke_width |-> FromInt(2), stroke_color |-> <<"#", "1", "f", "7", "7", "b", "4">>,
     canvas_size |-> cs, spiro_type |-> ty]

\* spec.md scenario 1, the defaults of cli.py KNOBS
DefaultConfig ==
    MkConfig(FromInt(180), FromInt(75), FromInt(40), Rat(1, 50), FromInt(20),
             900, HYPOTROCHOID)

\* <<outer_radius, inner_radius, pen_offset>>: the defaults, R = r + d,
\* R < r, R = r / 2
PathRadii == {<<180, 75, 40>>, <<10, 5, 5>>, <<45, 75, 40>>, <<10, 20, 1>>}

\* positive configurations generate_path is run on
PathConfigs ==
    {DefaultConfig} \cup
    {MkConfig(FromInt(rad[1]), FromInt(rad[2]), FromInt(rad[3]), ts, cy, cs, ty) :
        rad \in PathRadii, ts \in {Rat(1, 5), FromInt(2), FromInt(100)},
        cy \in {FromInt(1), FromInt(3), Rat(1, 100)}, cs \in {200, 900},
        ty \in SpiroType}

\* configurations scale_points is run on, degenerate ones included
ScaleConfigs ==
    {MkConfig(FromInt(R), FromInt(r), FromInt(d), Rat(1, 50), FromInt(20), cs, ty) :
        R \in {0, 10, 180}, r \in {0, 5, 20, 75}, d \in {0, 1, 5, 40},
        cs \in {200, 900}, ty \in SpiroType}

\* raw points scale_points is run on: the origin, the mean of the default
\* hypotrochoid extent ((65 + 220) / 2), a negative and a fractional value
RawPool == {<<FromInt(0), FromInt(0)>>, <<Rat(285, 2), FromInt(0)>>,
            <<Rat(0 - 3, 2), Rat(1, 16)>>}

\* canvas points points_to_path is run on: 0.0625 and 0.1875 are ties of .3f
CanvasPool == {<<FromInt(10), FromInt(20)>>, <<FromInt(30), FromInt(40)>>,
               <<Rat(1, 16), Rat(3, 16)>>, <<Rat(0 - 1, 3), Rat(2999, 3)>>,
               <<Rat(0 - 1, 4000), FromInt(0)>>, <<Rat(40050, 31), FromInt(450)>>}

InitPipeline ==
    /\ caller = "none"
    /\ locals = NoValue
    /\ segments = <<>>
    /\ path = NoPath
    /\ error = NoValue
    /\ args = NoValue
    /\ design = NoValue
    /\ values = <<>>
    /\ svg = NoValue
    /\ disk = {}

\* generate_path(config)
InitPath ==
    /\ InitPipeline
    /\ pc = "generate_points"
    /\ config \in PathConfigs
    /\ points = <<>>
    /\ scaled = <<>>

NextPath == GeneratePoints \/ ScalePoints \/ PointsToPath

SpecPath == InitPath /\ [][NextPath]_vars

\* points_to_path(scale_points(points, config))
InitScale ==
    /\ InitPipeline
    /\ pc = "scale_points"
    /\ config \in ScaleConfigs
    /\ points \in SeqsUpTo(RawPool, MaxLen)
    /\ scaled = <<>>

NextScale == ScalePoints \/ PointsToPath

SpecScale == InitScale /\ [][NextScale]_vars

\* points_to_path(points)
InitEncode ==
    /\ InitPipeline
    /\ pc = "points_to_path"
    /\ config = NoValue
    /\ points = <<>>
    /\ scaled \in SeqsUpTo(CanvasPool, MaxPathLen)

NextEncode == PointsToPath

SpecEncode == InitEncode /\ [][NextEncode]_vars

-----------------------------------------------------------------------------
(* cli.py: the knobs and their validation.  None is the empty tuple, a     *)
(* float is a rational, a colour string is the sequence of its characters. *)

None == <<>>

Some(v) == <<v>>

Knob(type, default, minimum, maximum, choices) ==
    [value_type |-> type, default |-> default,
     minimum |-> minimum, maximum |-> maximum, choices |-> choices]

\* the keys of KNOBS in dict order
KnobOrder ==
    <<"outer_radius", "inner_radius", "pen_offset", "theta_step", "cycles",
      "stroke_width", "canvas_size", "stroke_color", "spiro_type">>

KNOBS ==
    [name \in {KnobOrder[i] : i \in 1 .. Len(KnobOrder)} |->
        CASE name = "outer_radius" ->
                Knob("float", FromInt(180), FromInt(10), FromInt(400), None)
          [] name = "inner_radius" ->
                Knob("float", FromInt(75), FromInt(5), FromInt(250), None)
          [] name = "pen_offset" ->
                Knob("float", FromInt(40), FromInt(1), FromInt(250), None)
          [] name = "theta_step" ->
                Knob("float", Rat(2, 100), Rat(1, 1000), Rat(2, 10), None)
          [] name = "cycles" ->
                Knob("float", FromInt(20), FromInt(1), FromInt(60), None)
          [] name = "stroke_width" ->
                Knob("float", FromInt(2), Rat(1, 10), FromInt(10), None)
          [] name = "canvas_size" ->
                Knob("int", 900, FromInt(200), FromInt(3000), None)
          [] name = "stroke_color" ->
                Knob("str", <<"#", "1", "f", "7", "7", "b", "4">>, None, None, None)
          [] name = "spiro_type" ->
                Knob("str", HYPOTROCHOID, None, None, <<HYPOTROCHOID, EPITROCHOID>>)]

Ok(v) == [ok |-> TRUE, value |-> v]

ValueError(msg) == [ok |-> FALSE, error |-> [type |-> "ValueError", message |-> msg]]

\* mutant of validate_range: the maximum is not checked
validate_range_NoMax(name, value, result, knob) ==
    IF knob.minimum # None /\ RLt(value, knob.minimum)
    THEN ValueError(<<name, "must be >=", knob.minimum>>)
    ELSE Ok(result)

\* _validate_range; value is the number as a rational, result the value kept
validate_range(name, value, result, knob) ==
    IF knob.minimum # None /\ RLt(value, knob.minimum)
    THEN ValueError(<<name, "must be >=", knob.minimum>>)
    ELSE IF knob.maximum # None /\ RLt(knob.maximum, value)
    THEN ValueError(<<name, "must be <=", knob.maximum>>)
    ELSE Ok(result)

\* str.strip() of a sequence of characters
RECURSIVE LStrip(_)
LStrip(t) == IF Len(t) > 0 /\ Head(t) = " " THEN LStrip(Tail(t)) ELSE t

RECURSIVE RStrip(_)
RStrip(t) ==
    IF Len(t) > 0 /\ t[Len(t)] = " " THEN RStrip(SubSeq(t, 1, Len(t) - 1)) ELSE t

Strip(t) == RStrip(LStrip(t))

\* str.lower() of one character
LowerChar(ch) ==
    CASE ch = "A" -> "a" [] ch = "B" -> "b" [] ch = "C" -> "c"
      [] ch = "D" -> "d" [] ch = "E" -> "e" [] ch = "F" -> "f"
      [] OTHER -> ch

Lower(t) == [i \in 1 .. Len(t) |-> LowerChar(t[i])]

\* value in knob.choices
InChoices(value, choices) == \E i \in 1 .. Len(choices) : choices[i] = value

\* _normalize_value
normalize_value(name, value, knob) ==
    IF knob.value_type = "float"
    THEN validate_range(name, value, value, knob)
    ELSE IF knob.value_type = "int"
    THEN validate_range(name, FromInt(value), value, knob)
    ELSE IF knob.choices # None
    THEN IF InChoices(value, knob.choices)
         THEN Ok(value)
         ELSE ValueError(<<"Invalid choice", value, name>>)
    ELSE IF name = "stroke_color"
    THEN LET text == Strip(value)
         IN  IF Len(text) = 0 \/ Head(text) # "#" \/ Len(text) \notin {4, 7}
             THEN ValueError(<<"Stroke color must be a hex value like #ff00aa">>)
             ELSE Ok(Lower(text))
    ELSE Ok(value)

\* the values _random_value may draw: inside [minimum, maximum], one of the
\* choices, or "#" and six hex digits
RandomValues(name) ==
    CASE name = "outer_radius" -> {FromInt(180), FromInt(400)}
      [] name = "inner_radius" -> {FromInt(75)}
      [] name = "pen_offset" -> {FromInt(40), FromInt(1)}
      [] name = "theta_step" -> {Rat(2, 10)}
      [] name = "cycles" -> {FromInt(1)}
      [] name = "stroke_width" -> {Rat(1, 10)}
      [] name = "canvas_size" -> {200}
      [] name = "stroke_color" -> {<<"#", "0", "0", "a", "f", "f", "e">>}
      [] name = "spiro_type" -> {HYPOTROCHOID, EPITROCHOID}

\* the values the command line or the prompt may give: any number of the
\* knob's type, any text for the colour, one of the choices for the type
InputValues(name) ==
    CASE name = "outer_radius" -> {FromInt(180), FromInt(10), FromInt(5), FromInt(401)}
      [] name = "inner_radius" -> {FromInt(75), FromInt(0)}
      [] name = "pen_offset" -> {FromInt(40), FromInt(251)}
      [] name = "theta_step" -> {Rat(2, 10), Rat(1, 2), FromInt(0)}
      [] name = "cycles" -> {FromInt(1), FromInt(61)}
      [] name = "stroke_width" -> {FromInt(2), FromInt(0)}
      [] name = "canvas_size" -> {900, 200, 100}
      [] name = "stroke_color" ->
            {<<"#", "1", "f", "7", "7", "b", "4">>, <<"#", "F", "0", "A">>,
             <<" ", "#", "f", "f", "f", " ">>, <<"r", "e", "d">>, <<"#", "f", "f">>}
      [] name = "spiro_type" -> {HYPOTROCHOID, EPITROCHOID}

\* _build_config, values in KnobOrder
build_config(v) ==
    [outer_radius |-> v[1], inner_radius |-> v[2], pen_offset |-> v[3],
     theta_step |-> v[4], cycles |-> v[5], stroke_width |-> v[6],
     stroke_color |-> v[8], canvas_size |-> v[7], spiro_type |-> v[9]]

\* datetime.utcnow(): isoformat(timespec="seconds") and strftime("%Y%m%d-%H%M%S")
Clock ==
    {[tick |-> 1, iso |-> "2024-05-01T10:00:00", compact |-> "20240501-100000"],
     [tick |-> 2, iso |-> "2024-05-01T10:00:01", compact |-> "20240501-100001"]}

TickOf(iso) == (CHOOSE t \in Clock : t.iso = iso).tick

\* SVG_TEMPLATE.format(...): the fields the template is filled with
FormatSvg(c, p, design_number, now) ==
    [size |-> c.canvas_size, path |-> p, stroke_color |-> c.stroke_color,
     stroke_width |-> c.stroke_width, timestamp |-> now.iso,
     design_number |-> design_number]

\* the file name save_svg writes to
OutputName(output, now) ==
    IF output = None THEN "spirograph-" \o now.compact \o ".svg" ELSE output[1]

\* Path.write_text: the file is created or replaced
WriteText(files, name, content) ==
    {f \in files : f.name # name} \cup {[name |-> name, content |-> content]}

-----------------------------------------------------------------------------
(* cli.py main and render.py build_svg / save_svg, one action per call.    *)

pipeVars == <<points, locals, scaled, segments, path>>

\* parse_arguments: --output, --design-number, --random (the knob options
\* are read one by one in CollectKnob)
ParseArguments ==
    /\ pc = "parse_arguments"
    /\ \E out \in {None, Some("out.svg")}, dn \in {None, Some(7)}, rnd \in BOOLEAN :
          args' = [output |-> out, design_number |-> dn, random |-> rnd]
    /\ pc' = "prepare_rng"
    /\ UNCHANGED <<caller, config, error, design, values, svg, disk>>
    /\ UNCHANGED pipeVars

\* _prepare_rng: the design number given, drawn by SystemRandom, or prompted
PrepareRng ==
    /\ pc = "prepare_rng"
    /\ \E n \in (IF args.design_number # None THEN {args.design_number[1]}
                 ELSE IF args.random THEN {1, 2147483647}
                 ELSE {1, 42}) :
          design' = [number |-> n]
    /\ pc' = "collect_knob_values"
    /\ UNCHANGED <<caller, config, error, args, values, svg, disk>>
    /\ UNCHANGED pipeVars

\* one iteration of either loop of _collect_knob_values; after the last
\* knob the function returns
CollectKnob ==
    /\ pc = "collect_knob_values"
    /\ LET name == KnobOrder[Len(values) + 1]
           knob == KNOBS[name]
       IN  \E raw_value \in (IF args.random THEN RandomValues(name)
                             ELSE InputValues(name)) :
              LET r == normalize_value(name, raw_value, knob)
              IN  IF r.ok
                  THEN /\ values' = Append(values, r.value)
                       /\ pc' = IF Len(values') = Len(KnobOrder)
                                THEN "build_config" ELSE "collect_knob_values"
                       /\ UNCHANGED error
                  ELSE /\ Raise(r.error)
                       /\ UNCHANGED values
    /\ UNCHANGED <<caller, config, args, design, svg, disk>>
    /\ UNCHANGED pipeVars

\* _build_config
BuildConfig ==
    /\ pc = "build_config"
    /\ config' = build_config(values)
    /\ pc' = "build_svg"
    /\ UNCHANGED <<caller, error, args, design, values, svg, disk>>
    /\ UNCHANGED pipeVars

\* build_svg calls generate_path(config)
BuildSvg ==
    /\ pc = "build_svg"
    /\ caller' = "build_svg"
    /\ pc' = "generate_points"
    /\ UNCHANGED <<config, error, args, design, values, svg, disk>>
    /\ UNCHANGED pipeVars

\* build_svg fills the template with the path and returns
BuildSvgFormat ==
    /\ pc = "build_svg_format"
    /\ \E now \in Clock : svg' = FormatSvg(config, path, design.number, now)
    /\ caller' = "none"
    /\ pc' = "save_svg"
    /\ UNCHANGED <<config, error, args, design, values, disk>>
    /\ UNCHANGED pipeVars

\* save_svg: the only statement of the repository that writes a file
\* (failures of the file system itself are not modelled)
SaveSvg ==
    /\ pc = "save_svg"
    /\ \E now \in {t \in Clock : t.tick >= TickOf(svg.timestamp)} :
          disk' = WriteText(disk, OutputName(args.output, now), svg)
    /\ pc' = "summarize_config"
    /\ UNCHANGED <<caller, config, error, args, design, values, svg>>
    /\ UNCHANGED pipeVars

\* _summarize_config prints the table; main returns
SummarizeConfig ==
    /\ pc = "summarize_config"
    /\ pc' = "done"
    /\ UNCHANGED <<caller, config, error, args, design, values, svg, disk>>
    /\ UNCHANGED pipeVars

Init ==
    /\ pc = "parse_arguments"
    /\ caller = "none"
    /\ config = NoValue
    /\ points = <<>>
    /\ locals = NoValue
    /\ scaled = <<>>
    /\ segments = <<>>
    /\ path = NoPath
    /\ error = NoValue
    /\ args = NoValue
    /\ design = NoValue
    /\ values = <<>>
    /\ svg = NoValue
    /\ disk = {}

Next ==
    \/ ParseArguments
    \/ PrepareRng
    \/ CollectKnob
    \/ BuildConfig
    \/ BuildSvg
    \/ GeneratePoints
    \/ ScalePoints
    \/ PointsToPath
    \/ BuildSvgFormat
    \/ SaveSvg
    \/ SummarizeConfig

\* one invocation of main
Spec == Init /\ [][Next]_vars

-----------------------------------------------------------------------------
(* Properties.                                                             *)

\* generate_points has returned
Generated == pc \in {"scale_points", "points_to_path", "done", "build_svg_format",
                     "save_svg", "summarize_config"}

\* scale_points has returned
Scaled == pc \in {"points_to_path", "done", "build_svg_format", "save_svg",
                  "summarize_config"}

Coords(pts) == {<<i, k>> : i \in 1 .. Len(pts), k \in {1, 2}}

InCanvas(v, c) == RLe(FromInt(0), v) /\ RLe(v, FromInt(c.canvas_size))

\* C1: every point scale_points returns for the points of generate_points
\* lies inside the canvas: both coordinates are in [0, canvas_size].
C1_ScaledFitsCanvas ==
    (pc \in {"points_to_path", "done"} /\ Len(points) > 0)
        => \A ik \in Coords(scaled) : InCanvas(scaled[ik[1]][ik[2]], config)

\* floor(2 * pi * cycles / theta_step) on the numerators and denominators
FloorOfTurns(c) ==
    (2 * Pi[1] * c.cycles[1] * c.theta_step[2])
        \div (Pi[2] * c.cycles[2] * c.theta_step[1])

\* C2: generate_points returns steps + 1 points, steps = max(1, floor(2 pi
\* cycles / theta_step)), and scale_points returns as many; 6284 points for
\* cycles = 20 and theta_step = 0.02.
C2_LengthInvariant ==
    /\ Generated => Len(points) = IMax(1, FloorOfTurns(config)) + 1
    /\ Scaled => Len(scaled) = Len(points)
    /\ (Scaled /\ config = DefaultConfig) => Len(scaled) = 6284

C2_Witness ==
    /\ pc = "done"
    /\ config.cycles = FromInt(20)
    /\ config.theta_step = Rat(2, 100)
    /\ Len(points) = 6284
    /\ Len(scaled) = 6284

\* (min_extent + max_extent) / 2 of SpiroConfig.extent
MeanExtent(c) == RDiv(RAdd(extent(c)[1], extent(c)[2]), FromInt(2))

\* C3 as stated: a raw coordinate equal to the mean of the two extent values
\* is mapped to exactly canvas_size / 2.
C3_MeanExtentMapsToCenter ==
    (Scaled /\ Len(points) > 0)
        => \A ik \in Coords(points) :
              points[ik[1]][ik[2]] = MeanExtent(config)
                  => scaled[ik[1]][ik[2]] = Rat(config.canvas_size, 2)

\* C3 amended: the raw coordinate 0, and no other, is mapped to exactly
\* canvas_size / 2; the mean of the extent values is mapped to
\* canvas_size / 2 + mean * scale, which is canvas_size / 2 only for mean 0.
C3_OriginMapsToCenter ==
    (Scaled /\ Len(points) > 0)
        => /\ \A ik \in Coords(points) :
                 /\ (points[ik[1]][ik[2]] = FromInt(0))
                        <=> (scaled[ik[1]][ik[2]] = Rat(config.canvas_size, 2))
                 /\ points[ik[1]][ik[2]] = MeanExtent(config)
                        => scaled[ik[1]][ik[2]] =
                              RAdd(Rat(config.canvas_size, 2),
                                   RMul(MeanExtent(config), locals.scale))
           /\ RLt(FromInt(0), locals.scale)

C3_Witness ==
    /\ Scaled
    /\ \E ik \in Coords(points) :
          /\ points[ik[1]][ik[2]] = MeanExtent(config)
          /\ MeanExtent(config) # FromInt(0)
          /\ scaled[ik[1]][ik[2]] # Rat(config.canvas_size, 2)
    /\ \E ik \in Coords(points) :
          /\ points[ik[1]][ik[2]] = FromInt(0)
          /\ scaled[ik[1]][ik[2]] = Rat(config.canvas_size, 2)

C5_DegenerateSpanSafe ==
    (Scaled /\ Len(points) > 0 /\ RLe(FromInt(0), locals.span0))
        => /\ error = NoValue
           /\ RLt(FromInt(0), locals.scale)
           /\ RLe(locals.scale, Rat(config.canvas_size, 2))
           /\ RLe(FromInt(1), RDiv(Rat(config.canvas_size, 2), locals.scale))
           /\ \A ik \in Coords(points) :
                 RLe(RAbs(scaled[ik[1]][ik[2]]),
                     RMul(Rat(config.canvas_size, 2),
                          RAdd(FromInt(1), RAbs(points[ik[1]][ik[2]]))))

C5_Witness ==
    /\ pc = "points_to_path"
    /\ Len(points) > 0
    /\ locals # NoValue
    /\ locals.span0 = FromInt(0)
    /\ Len(scaled) = Len(points)

\* what Python prints for the coordinates of CanvasPool with format .3f
PythonFmt3(v) ==
    CASE v = FromInt(10) -> "10.000" [] v = FromInt(20) -> "20.000"
      [] v = FromInt(30) -> "30.000" [] v = FromInt(40) -> "40.000"
      [] v = Rat(1, 16) -> "0.062" [] v = Rat(3, 16) -> "0.188"
      [] v = Rat(0 - 1, 3) -> "-0.333" [] v = Rat(2999, 3) -> "999.667"
      [] v = Rat(0 - 1, 4000) -> "-0.000" [] v = FromInt(0) -> "0.000"
      [] v = Rat(40050, 31) -> "1291.935" [] v = FromInt(450) -> "450.000"

\* C6: points_to_path emits one command per point, in input order: M with
\* point 1, then L with each later point; [(10,20),(30,40)] gives
\* "M 10.000 20.000 L 30.000 40.000".
C6_CommandsFollowPoints ==
    (pc = "done" /\ caller = "none" /\ config = NoValue)
        => /\ Len(segments) = Len(scaled)
           /\ \A i \in 1 .. Len(scaled) :
                 /\ segments[i].cmd = (IF i = 1 THEN "M" ELSE "L")
                 /\ segments[i].x = PythonFmt3(scaled[i][1])
                 /\ segments[i].y = PythonFmt3(scaled[i][2])
           /\ scaled = <<<<FromInt(10), FromInt(20)>>, <<FromInt(30), FromInt(40)>>>>
                 => path = "M 10.000 20.000 L 30.000 40.000"

C6_Witness ==
    /\ pc = "done"
    /\ scaled = <<<<FromInt(10), FromInt(20)>>, <<FromInt(30), FromInt(40)>>>>
    /\ path = "M 10.000 20.000 L 30.000 40.000"
    /\ Len(segments) = 2

\* the value of a numeric knob lies in the range KNOBS gives it
KnobInRange(i) ==
    LET k == KNOBS[KnobOrder[i]]
        v == IF k.value_type = "int" THEN FromInt(values[i]) ELSE values[i]
    IN  k.value_type \in {"float", "int"}
            => RLe(k.minimum, v) /\ RLe(v, k.maximum)

\* C7: every value kept by validation is in its knob's range; a file is
\* written only after validation of all nine knobs, the configuration,
\* generate_path and build_svg have succeeded; a run ended by an error has
\* written nothing.
C7_NoWriteAfterError ==
    /\ \A i \in 1 .. Len(values) : KnobInRange(i)
    /\ disk # {} =>
          /\ error = NoValue
          /\ pc \in {"summarize_config", "done"}
          /\ Len(values) = Len(KnobOrder)
          /\ values[8][1] = "#" /\ Len(values[8]) \in {4, 7}
          /\ values[9] \in SpiroType
          /\ config = build_config(values)
          /\ path # NoPath
          /\ svg # NoValue
          /\ \A f \in disk : f.content = svg /\ f.content.path = path
    /\ (pc = "raised" \/ error # NoValue) => disk = {}
    /\ pc \in {"parse_arguments", "prepare_rng", "collect_knob_values",
               "build_config", "build_svg", "generate_points", "scale_points",
               "points_to_path", "build_svg_format", "save_svg", "raised"}
          => disk = {}

C7_Witness ==
    /\ pc = "raised"
    /\ error # NoValue
    /\ error.type = "ValueError"
    /\ Len(values) >= 3
    /\ disk = {}

\* C8: scale_points on an empty sequence returns an empty sequence, raises
\* nothing and computes neither extent nor scale, whatever the configuration.
C8_EmptyInEmptyOut ==
    (pc = "points_to_path" /\ Len(points) = 0)
        => /\ scaled = <<>>
           /\ locals = NoValue
           /\ error = NoValue

C8_Witness ==
    /\ pc = "points_to_path"
    /\ points = <<>>
    /\ scaled = <<>>
    /\ extent(config)[1] = extent(config)[2]

\* C9: generate_points returns at least 2 points however large theta_step or
\* small cycles is, so generate_path never fails and returns a path that
\* starts with a move-to and holds at least one line-to.
C9_AtLeastOneSegment ==
    /\ pc # "raised"
    /\ error = NoValue
    /\ Generated => Len(points) >= 2
    /\ pc = "done" =>
          /\ path # NoPath
          /\ Len(segments) >= 2
          /\ segments[1].cmd = "M"
          /\ segments[2].cmd = "L"

C9_Witness ==
    /\ pc = "done"
    /\ config.theta_step = FromInt(100)
    /\ config.cycles = Rat(1, 100)
    /\ Len(points) = 2
    /\ Len(segments) = 2

\* the three radii are positive
PositiveRadii(c) ==
    /\ RLt(FromInt(0), c.outer_radius)
    /\ RLt(FromInt(0), c.inner_radius)
    /\ RLt(FromInt(0), c.pen_offset)

\* the three radii lie in the ranges of KNOBS
RadiiInKnobRanges(c) ==
    /\ RLe(KNOBS["outer_radius"].minimum, c.outer_radius)
    /\ RLe(c.outer_radius, KNOBS["outer_radius"].maximum)
    /\ RLe(KNOBS["inner_radius"].minimum, c.inner_radius)
    /\ RLe(c.inner_radius, KNOBS["inner_radius"].maximum)
    /\ RLe(KNOBS["pen_offset"].minimum, c.pen_offset)
    /\ RLe(c.pen_offset, KNOBS["pen_offset"].maximum)

\* C10: for positive radii the span is inner_radius + 2 pen_offset
\* (hypotrochoid) or outer_radius + inner_radius + pen_offset (epitrochoid),
\* never zero, so the degenerate-span guard is not taken.
C10_GuardUnreachable ==
    (Scaled /\ Len(points) > 0 /\ PositiveRadii(config))
        => /\ locals.span0 =
                 (IF config.spiro_type = HYPOTROCHOID
                  THEN RAdd(config.inner_radius,
                            RMul(FromInt(2), config.pen_offset))
                  ELSE RAdd(RAdd(config.outer_radius, config.inner_radius),
                            config.pen_offset))
           /\ RLt(FromInt(0), locals.span0)
           /\ locals.span = locals.span0

C10_Witness ==
    /\ Scaled
    /\ Len(points) > 0
    /\ RadiiInKnobRanges(config)
    /\ config.spiro_type = HYPOTROCHOID
    /\ config.outer_radius = RAdd(config.inner_radius, config.pen_offset)
    /\ locals.span = locals.span0

=============================================================================
